---- MODULE Spec2Model ----
(***************************************************************************)
(* Nyaya-Saar backend (src/backend/server.js): the Express handlers of the *)
(* document-analysis pipeline, the GrokAPI gateway and the text extractor,  *)
(* as a state machine over a bounded number of concurrent HTTP requests.    *)
(*                                                                         *)
(* JavaScript values (request fields, parsed model output, response        *)
(* bodies) are records tagged by `kind`; strings are TLA+ strings.  The    *)
(* raw text of the external model is a string whose lexemes are given by   *)
(* Lex, and JSON.parse is a recursive-descent parser over those lexemes.   *)
(***************************************************************************)
EXTENDS Integers, Sequences, FiniteSets, TLC

\* Number of HTTP requests the server handles concurrently in the model.
NumReqs == 2

Reqs == 1..NumReqs

-----------------------------------------------------------------------------
(* JavaScript / JSON values *)

JUndef == [kind |-> "undefined"]
JNull == [kind |-> "null"]
JBool(b) == [kind |-> "boolean", b |-> b]
JNum(d) == [kind |-> "number", v |-> d]
JStr(s) == [kind |-> "string", v |-> s]
JArr(items) == [kind |-> "array", items |-> items]
\* members: a sequence of <<key, value>> pairs in insertion order, keys unique
JObj(members) == [kind |-> "object", members |-> members]

\* JavaScript's ToBoolean, negated: the values `!x` is true for
Falsy(x) ==
    \/ x.kind \in {"undefined", "null"}
    \/ x.kind = "boolean" /\ ~x.b
    \/ x.kind = "number" /\ x.v = "0"
    \/ x.kind = "string" /\ x.v = ""

Keys(o) == [i \in 1..Len(o.members) |-> o.members[i][1]]

HasKey(o, k) == \E i \in 1..Len(o.members) : o.members[i][1] = k

Get(o, k) ==
    IF HasKey(o, k)
    THEN o.members[CHOOSE i \in 1..Len(o.members) : o.members[i][1] = k][2]
    ELSE JUndef

\* obj[k] = v on a JavaScript object: an existing key keeps its position
SetMember(members, k, v) ==
    IF \E i \in 1..Len(members) : members[i][1] = k
    THEN [i \in 1..Len(members) |->
             IF members[i][1] = k THEN <<k, v>> ELSE members[i]]
    ELSE Append(members, <<k, v>>)

-----------------------------------------------------------------------------
(* Lexemes of the model's raw text *)

P(c) == [t |-> "punct", v |-> c]
S(s) == [t |-> "str", v |-> s]
N(d) == [t |-> "num", v |-> d]
L(w) == [t |-> "lit", v |-> w]
W(w) == [t |-> "word", v |-> w]

RawNotJson == "not json"
RawEmpty == ""
RawNull == "null"
RawNumber == "42"
RawString == "\"see attached\""
RawEmptyArray == "[]"
RawFlagArray == "[{\"type\":\"penalty_clause\",\"severity\":\"high\"}]"
RawEmptyObject == "{}"
RawTruncated == "{\"redFlags\":["
RawAnalysis == "{\"redFlags\":[],\"summary\":null}"

\* response bodies the browser receives from the backend
BodyTranslated == "{\"translatedText\":\"Namaste duniya\"}"
BodyEmptyTranslation == "{\"translatedText\":\"\"}"
BodyError == "{\"error\":\"Failed to translate text\"}"
BodyHtml == "<html>502 Bad Gateway</html>"
BodyFlags == "{\"redFlags\":[{\"type\":\"penalty_clause\",\"severity\":\"high\"}]}"
BodyNoFlags == "{\"redFlags\":[]}"
BodyFlagsNumber == "{\"redFlags\":42}"

\* The raw texts the external model answers with in the model
RawTexts ==
    { RawEmpty, RawNotJson, RawTruncated, RawNull, RawNumber, RawString,
      RawEmptyArray, RawFlagArray, RawEmptyObject, RawAnalysis }

\* The JSON lexemes of each raw text (whitespace dropped); a run of
\* characters that starts no JSON lexeme is a "word"
Lex(text) ==
    CASE text = RawEmpty -> <<>>
      [] text = RawNotJson -> <<W("not"), W("json")>>
      [] text = RawNull -> <<L("null")>>
      [] text = RawNumber -> <<N("42")>>
      [] text = RawString -> <<S("see attached")>>
      [] text = RawEmptyArray -> <<P("["), P("]")>>
      [] text = RawFlagArray ->
            << P("["), P("{"), S("type"), P(":"), S("penalty_clause"), P(","),
               S("severity"), P(":"), S("high"), P("}"), P("]") >>
      [] text = RawEmptyObject -> <<P("{"), P("}")>>
      [] text = RawTruncated -> <<P("{"), S("redFlags"), P(":"), P("[")>>
      [] text = RawAnalysis ->
            << P("{"), S("redFlags"), P(":"), P("["), P("]"), P(","),
               S("summary"), P(":"), L("null"), P("}") >>
      [] text = BodyTranslated ->
            <<P("{"), S("translatedText"), P(":"), S("Namaste duniya"), P("}")>>
      [] text = BodyEmptyTranslation -> <<P("{"), S("translatedText"), P(":"), S(""), P("}")>>
      [] text = BodyError ->
            <<P("{"), S("error"), P(":"), S("Failed to translate text"), P("}")>>
      [] text = BodyFlags ->
            << P("{"), S("redFlags"), P(":"), P("["), P("{"), S("type"), P(":"),
               S("penalty_clause"), P(","), S("severity"), P(":"), S("high"), P("}"), P("]"),
               P("}") >>
      [] text = BodyNoFlags -> <<P("{"), S("redFlags"), P(":"), P("["), P("]"), P("}")>>
      [] text = BodyFlagsNumber -> <<P("{"), S("redFlags"), P(":"), N("42"), P("}")>>
      [] OTHER -> <<W(text)>>

-----------------------------------------------------------------------------
(* JSON.parse *)

Fail == [ok |-> FALSE, val |-> JUndef, next |-> 0]
Ok(v, n) == [ok |-> TRUE, val |-> v, next |-> n]

IsPunct(ts, i, c) == i <= Len(ts) /\ ts[i] = P(c)

RECURSIVE ParseValue(_, _)
RECURSIVE ParseElements(_, _, _)
RECURSIVE ParseMembers(_, _, _)

\* the elements of an array after "[" or after ",": value then "," or "]"
ParseElements(ts, i, acc) ==
    LET e == ParseValue(ts, i) IN
    IF ~e.ok THEN Fail
    ELSE IF IsPunct(ts, e.next, "]") THEN Ok(JArr(Append(acc, e.val)), e.next + 1)
    ELSE IF IsPunct(ts, e.next, ",") THEN ParseElements(ts, e.next + 1, Append(acc, e.val))
    ELSE Fail

\* the members of an object after "{" or after ",": string ":" value then "," or "}"
ParseMembers(ts, i, acc) ==
    IF ~(i <= Len(ts) /\ ts[i].t = "str" /\ IsPunct(ts, i + 1, ":")) THEN Fail
    ELSE LET e == ParseValue(ts, i + 2) IN
         IF ~e.ok THEN Fail
         ELSE LET acc2 == SetMember(acc, ts[i].v, e.val) IN
              IF IsPunct(ts, e.next, "}") THEN Ok(JObj(acc2), e.next + 1)
              ELSE IF IsPunct(ts, e.next, ",") THEN ParseMembers(ts, e.next + 1, acc2)
              ELSE Fail

ParseValue(ts, i) ==
    IF i > Len(ts) THEN Fail
    ELSE LET tok == ts[i] IN
         CASE tok.t = "lit" /\ tok.v = "null" -> Ok(JNull, i + 1)
           [] tok.t = "lit" /\ tok.v = "true" -> Ok(JBool(TRUE), i + 1)
           [] tok.t = "lit" /\ tok.v = "false" -> Ok(JBool(FALSE), i + 1)
           [] tok.t = "num" -> Ok(JNum(tok.v), i + 1)
           [] tok.t = "str" -> Ok(JStr(tok.v), i + 1)
           [] tok = P("[") ->
                IF IsPunct(ts, i + 1, "]") THEN Ok(JArr(<<>>), i + 2)
                ELSE ParseElements(ts, i + 1, <<>>)
           [] tok = P("{") ->
                IF IsPunct(ts, i + 1, "}") THEN Ok(JObj(<<>>), i + 2)
                ELSE ParseMembers(ts, i + 1, <<>>)
           [] OTHER -> Fail

\* JSON.parse(text): the value, or a SyntaxError (ok = FALSE) unless the
\* whole text is exactly one JSON value
JSONParse(text) ==
    LET ts == Lex(text)
        r == ParseValue(ts, 1)
    IN IF r.ok /\ r.next = Len(ts) + 1
       THEN [ok |-> TRUE, val |-> r.val]
       ELSE [ok |-> FALSE, val |-> JUndef]

-----------------------------------------------------------------------------
(* Requests *)

TextA == "Tenant shall pay 50% penalty for late payment and disputes go to binding arbitration."
TextB == "Hello world"

\* values of a string-valued body field: absent, empty, and two texts
TextValues == {JUndef, JStr(""), JStr(TextA), JStr(TextB)}

TargetLanguages == {JUndef, JStr("hindi")}

LanguageLists == {JUndef, JArr(<<JStr("hindi"), JStr("tamil")>>)}

\* req.file when no file part was uploaded
NoFile == [kind |-> "undefined"]

\* an uploaded file (multer memory storage); the buffer is described by the
\* format its bytes really have and by the text they carry
File(name, mime, format, text) ==
    [kind |-> "file", originalname |-> name, mimetype |-> mime,
     buffer |-> [format |-> format, text |-> text]]

MimePdf == "application/pdf"
MimeDocx == "application/vnd.openxmlformats-officedocument.wordprocessingml.document"
MimeDoc == "application/msword"
MimeHtml == "text/html"
MimePlain == "text/plain"

Files ==
    { File("hello.txt", MimePlain, "text", TextB),
      File("lease.pdf", MimePdf, "pdf", TextA),
      File("broken.pdf", MimePdf, "garbage", ""),
      File("empty.txt", MimePlain, "text", "") }

Endpoints ==
    { "analyze-document", "simplify", "detect-red-flags", "tag-clauses",
      "link-statutes", "multilingual-simplify", "translate",
      "process-bail-document", "legal-advice", "voice-assistant" }

\* the endpoints whose handler JSON.parses the model's text
ParsingEndpoints ==
    { "analyze-document", "detect-red-flags", "tag-clauses", "link-statutes",
      "multilingual-simplify", "process-bail-document" }

NoRequest == [endpoint |-> "none", body |-> [text |-> JUndef], file |-> NoFile]

-----------------------------------------------------------------------------
(* TextExtractor *)

\* A buffer's format is what its bytes really are: "text", "html", "pdf",
\* "docx" (a zip container), "doc" (the legacy binary Word format) or
\* "garbage".  Its text is the characters themselves for a text or HTML
\* buffer (for HTML, the markup), and the document's text for the others.

\* two HTML documents
HtmlA == "<p>Hello <b>world</b></p>"
HtmlB == "<html><body><h1>Lease</h1><p>Hello world</p></body></html>"

\* the bytes of a buffer decoded as UTF-8: the characters themselves for a
\* text or HTML buffer, replacement characters for binary formats
Utf8(buffer) ==
    IF buffer.format \in {"text", "html"} THEN buffer.text ELSE "\\uFFFD"

\* pdf(buffer): pdf-parse yields data.text, and throws on bytes that are no PDF
pdf(buffer) ==
    IF buffer.format = "pdf"
    THEN [ok |-> TRUE, text |-> buffer.text]
    ELSE [ok |-> FALSE, error |-> "Invalid PDF structure"]

\* mammoth.extractRawText({ buffer }): result.value, and throws on bytes that
\* are no zip container
extractRawText(buffer) ==
    IF buffer.format = "docx"
    THEN [ok |-> TRUE, text |-> buffer.text]
    ELSE [ok |-> FALSE, error |-> "Can't find end of central directory"]

\* cheerio.load(html) followed by $.text(): the text nodes of the document,
\* concatenated; a string without markup is its own text
CheerioText(html) ==
    CASE html = HtmlA -> "Hello world"
      [] html = HtmlB -> "LeaseHello world"
      [] OTHER -> html

\* extractTextFromFile(file): the text, or the Error it throws
ExtractErrorMessage == "Failed to extract text from file"

\* variant: the extractor chosen by what the bytes are, not by the declared type
extractTextFromFileSniffing(file) ==
    LET out == IF file.buffer.format = "pdf" THEN pdf(file.buffer)
               ELSE IF file.buffer.format \in {"docx", "doc"} THEN extractRawText(file.buffer)
               ELSE IF file.buffer.format = "html"
               THEN [ok |-> TRUE, text |-> CheerioText(Utf8(file.buffer))]
               ELSE [ok |-> TRUE, text |-> Utf8(file.buffer)]
    IN IF out.ok THEN out ELSE [ok |-> FALSE, error |-> ExtractErrorMessage]

extractTextFromFile(file) ==
    LET out == IF file.mimetype = MimePdf THEN pdf(file.buffer)
               ELSE IF file.mimetype \in {MimeDocx, MimeDoc} THEN extractRawText(file.buffer)
               ELSE IF file.mimetype = MimeHtml
               THEN [ok |-> TRUE, text |-> CheerioText(Utf8(file.buffer))]
               ELSE [ok |-> TRUE, text |-> Utf8(file.buffer)]
    IN IF out.ok THEN out ELSE [ok |-> FALSE, error |-> ExtractErrorMessage]

\* the files the extractor is applied to on its own: every declared type with
\* every kind of content, under two names
MimeOther == "application/octet-stream"

UploadNames == {"upload.bin", "hello.txt"}

UploadMimes == {MimePdf, MimeDocx, MimeDoc, MimeHtml, MimePlain, MimeOther}

UploadBuffers ==
    { [format |-> "text", text |-> TextB], [format |-> "text", text |-> ""],
      [format |-> "html", text |-> HtmlA], [format |-> "html", text |-> HtmlB],
      [format |-> "pdf", text |-> TextA], [format |-> "docx", text |-> TextA],
      [format |-> "doc", text |-> TextA], [format |-> "garbage", text |-> ""] }

UploadFiles ==
    { File(n, m, b.format, b.text) : n \in UploadNames, m \in UploadMimes, b \in UploadBuffers }

-----------------------------------------------------------------------------
(* PromptComposer: the template literals of the handlers.  A prompt is the  *)
(* template's task together with the values interpolated into it.           *)

\* `${x}` in a template literal
ToStr(x) ==
    CASE x.kind = "string" -> x.v
      [] x.kind = "number" -> x.v
      [] x.kind = "undefined" -> "undefined"
      [] x.kind = "null" -> "null"
      [] x.kind = "boolean" -> IF x.b THEN "true" ELSE "false"
      [] x.kind = "array" -> "<array>"
      [] OTHER -> "[object Object]"

\* a destructuring default: `x = d` takes d only when x is undefined
Default(x, d) == IF x.kind = "undefined" THEN d ELSE x

DefaultLanguages ==
    JArr(<<JStr("hindi"), JStr("tamil"), JStr("telugu"), JStr("bengali"), JStr("marathi")>>)

\* the language keys written literally in the multilingual schema skeleton
SchemaLanguageKeys == <<"hindi", "tamil", "telugu", "bengali", "marathi">>

TextPrompt(task, text) == [task |-> task, text |-> ToStr(text)]

SimplifyPrompt(text, language) ==
    [task |-> "simplify", text |-> ToStr(text), language |-> ToStr(language)]

MultilingualPrompt(text, languages) ==
    [task |-> "multilingual-simplify", text |-> ToStr(text),
     languages |-> [i \in 1..Len(languages.items) |-> ToStr(languages.items[i])],
     schemaKeys |-> SchemaLanguageKeys]

TranslatePrompt(text, targetLanguage) ==
    [task |-> "translate", text |-> ToStr(text), targetLanguage |-> ToStr(targetLanguage)]

QuestionPrompt(task, question, context) ==
    [task |-> task, text |-> ToStr(question), context |-> ToStr(context)]

-----------------------------------------------------------------------------
(* ModelGateway: class GrokAPI *)

DefaultMaxTokens == 2000
\* temperatures are in tenths: 7 is 0.7
DefaultTemperature == 7

AnalyzeMaxTokens == 4000
MultilingualMaxTokens == 3000
BailMaxTokens == 2000
AdviceMaxTokens == 2000
VoiceMaxTokens == 1000

\* the options argument; a field the caller leaves out is 0 (undefined)
NoOptions == [maxTokens |-> 0, temperature |-> 0]
\* variant: a handler calling the gateway with the prompt alone
MaxTokensLeftOut(n) == [maxTokens |-> 0, temperature |-> 0]

MaxTokens(n) == [maxTokens |-> n, temperature |-> 0]

\* variant: the gateway sending its own parameters whatever the caller passed
ModelRequestOwnParameters(prompt, options) ==
    [model |-> "grok-beta",
     content |-> prompt,
     max_tokens |-> DefaultMaxTokens,
     temperature |-> DefaultTemperature,
     options |-> options,
     timeout |-> 0]

\* the body of the axios.post to /chat/completions and its config
ModelRequest(prompt, options) ==
    [model |-> "grok-beta",
     content |-> prompt,
     max_tokens |-> IF options.maxTokens # 0 THEN options.maxTokens ELSE DefaultMaxTokens,
     temperature |-> IF options.temperature # 0 THEN options.temperature ELSE DefaultTemperature,
     options |-> options,
     timeout |-> 0]

KeyErrorMessage == "Grok API key not configured"
GatewayErrorMessage == "Failed to get response from Grok API"

\* what reaches axios's catch: a network failure or a non-2xx answer
UpstreamErrors == {"socket hang up", "Request failed with status code 429"}

-----------------------------------------------------------------------------
(* Handler outcomes: a handler either writes its response, or suspends on   *)
(* the model call, or suspends on the extraction of the uploaded file.      *)

ErrorBody(msg) == JObj(<< <<"error", JStr(msg)>> >>)

\* the message of each handler's catch block
FailureMessage(ep) ==
    CASE ep = "analyze-document" -> "Failed to analyze document"
      [] ep = "simplify" -> "Failed to simplify text"
      [] ep = "detect-red-flags" -> "Failed to detect red flags"
      [] ep = "tag-clauses" -> "Failed to tag clauses"
      [] ep = "link-statutes" -> "Failed to link statutes"
      [] ep = "multilingual-simplify" -> "Failed to create multilingual summary"
      [] ep = "translate" -> "Failed to translate text"
      [] ep = "process-bail-document" -> "Failed to process bail document"
      [] ep = "legal-advice" -> "Failed to provide legal advice"
      [] ep = "voice-assistant" -> "Failed to process voice command"

\* res.status(status).json(body)
Reply(status, body) == [kind |-> "reply", status |-> status, body |-> body, error |-> ""]

\* variant: the catch block sending the message as plain text
CaughtPlain(ep, error) ==
    [kind |-> "reply", status |-> 500, body |-> JStr(FailureMessage(ep)), error |-> error]

\* variant: the catch block sending the error it caught
CaughtVerbose(ep, error) ==
    [kind |-> "reply", status |-> 500, body |-> ErrorBody(error), error |-> error]

\* the handler's catch block: log the error, answer 500 with the fixed message
Caught(ep, error) ==
    [kind |-> "reply", status |-> 500, body |-> ErrorBody(FailureMessage(ep)), error |-> error]

Extract == [kind |-> "extract"]

-----------------------------------------------------------------------------
(* State *)

VARIABLES
    grokAPI,        \* the GrokAPI singleton: its apiKey ("" when GROK_API_KEY is unset)
    pc,             \* per request: "idle", "extracting", "awaiting" or "done"
    req,            \* per request: endpoint, req.body, req.file
    documentText,   \* per request: the handler's local documentText / text
    calls,          \* per request: the axios.post requests issued to the model
    modelResponse,  \* per request: what the pending axios.post settled with
    res,            \* per request: the responses written with res.json
    caught,         \* per request: the message of the error its catch block logged
    extractCalls,   \* per request: the number of extractTextFromFile calls
    aborted,        \* per request: the caller closed the connection
    upload,         \* the file given to the extractor applied on its own
    extracted,      \* what that application of the extractor returned
    user,           \* AuthProvider: the user state
    isLoading,      \* AuthProvider: the isLoading state
    localStorage,   \* the browser's "legalai_user" entry
    authOps,        \* AuthProvider: the login, register and updateProfile calls
    mounted,        \* AuthProvider: its session-restore effect has run
    authLog,        \* what has happened to the session: entry at load, logouts
    geminiAI,       \* GoogleCloudProvider: the direct model client, or null
    clientCall      \* GoogleCloudProvider: a call of one of its methods

serverVars ==
    <<grokAPI, pc, req, documentText, calls, modelResponse, res, caught, extractCalls, aborted>>

authVars == <<user, isLoading, localStorage, authOps, mounted, authLog>>

clientVars == <<geminiAI, clientCall>>

vars == <<serverVars, upload, extracted, authVars, clientVars>>

NotExtracted == [ok |-> FALSE, error |-> "not called"]

NoAnswer == [ok |-> FALSE, content |-> "", error |-> ""]

\* variant: the gateway posting without looking at its key
generateResponseNoKeyCheck(prompt, options) ==
    [kind |-> "call", request |-> ModelRequest(prompt, options)]

\* GrokAPI.generateResponse up to its await: throw without a key, else post
generateResponse(prompt, options) ==
    IF grokAPI.apiKey = ""
    THEN [kind |-> "throw", error |-> KeyErrorMessage]
    ELSE [kind |-> "call", request |-> ModelRequest(prompt, options)]

\* `await grokAPI.generateResponse(...)` inside a handler's try block
Try(ep, out) == IF out.kind = "throw" THEN Caught(ep, out.error) ELSE out

-----------------------------------------------------------------------------
(* The handlers up to their first suspension *)

\* variant: analyze-document without its `!documentText` guard
AnalyzeWithTextUnchecked(doc) ==
    Try("analyze-document",
        generateResponse(TextPrompt("analyze-document", doc), MaxTokens(AnalyzeMaxTokens)))

AnalyzeWithText(doc) ==
    IF Falsy(doc)
    THEN Reply(400, ErrorBody("Document text or file is required"))
    ELSE Try("analyze-document",
             generateResponse(TextPrompt("analyze-document", doc), MaxTokens(AnalyzeMaxTokens)))

\* variant: analyze-document reading the file only when no text came with it
AnalyzeStartTextFirst(q) ==
    IF q.file # NoFile /\ Falsy(q.body.text) THEN Extract ELSE AnalyzeWithText(q.body.text)

\* analyze-document: `if (req.file)` the text is extracted from the file first
AnalyzeStart(q) ==
    IF q.file # NoFile THEN Extract ELSE AnalyzeWithText(q.body.text)

SimplifyStart(q) ==
    IF Falsy(q.body.text)
    THEN Reply(400, ErrorBody("Text is required"))
    ELSE Try("simplify",
             generateResponse(SimplifyPrompt(q.body.text, Default(q.body.language, JStr("en"))),
                              NoOptions))

\* variant: the handler asking the gateway for its key before looking at the text
TextStartKeyFirst(ep, q) ==
    IF grokAPI.apiKey = ""
    THEN Caught(ep, KeyErrorMessage)
    ELSE IF Falsy(q.body.text)
    THEN Reply(400, ErrorBody("Text is required"))
    ELSE Try(ep, generateResponse(TextPrompt(ep, q.body.text), NoOptions))

\* detect-red-flags, tag-clauses and link-statutes: the same guard and call
TextStart(ep, q) ==
    IF Falsy(q.body.text)
    THEN Reply(400, ErrorBody("Text is required"))
    ELSE Try(ep, generateResponse(TextPrompt(ep, q.body.text), NoOptions))

MultilingualStart(q) ==
    IF Falsy(q.body.text)
    THEN Reply(400, ErrorBody("Text is required"))
    ELSE Try("multilingual-simplify",
             generateResponse(MultilingualPrompt(q.body.text,
                                                 Default(q.body.languages, DefaultLanguages)),
                              MaxTokens(MultilingualMaxTokens)))

\* variant: translate rejecting only when both inputs are missing
TranslateStartBoth(q) ==
    IF Falsy(q.body.text) /\ Falsy(q.body.targetLanguage)
    THEN Reply(400, ErrorBody("Text and target language are required"))
    ELSE Try("translate",
             generateResponse(TranslatePrompt(q.body.text, q.body.targetLanguage), NoOptions))

TranslateStart(q) ==
    IF Falsy(q.body.text) \/ Falsy(q.body.targetLanguage)
    THEN Reply(400, ErrorBody("Text and target language are required"))
    ELSE Try("translate",
             generateResponse(TranslatePrompt(q.body.text, q.body.targetLanguage), NoOptions))

BailWithText(text) ==
    Try("process-bail-document",
        generateResponse(TextPrompt("process-bail-document", text), MaxTokens(BailMaxTokens)))

BailStart(q) ==
    IF q.file = NoFile THEN Reply(400, ErrorBody("File is required")) ELSE Extract

AdviceStart(q) ==
    IF Falsy(q.body.question)
    THEN Reply(400, ErrorBody("Question is required"))
    ELSE Try("legal-advice",
             generateResponse(QuestionPrompt("legal-advice", q.body.question,
                                             Default(q.body.context, JStr(""))),
                              MaxTokens(AdviceMaxTokens)))

VoiceStart(q) ==
    IF Falsy(q.body.message)
    THEN Reply(400, ErrorBody("Message is required"))
    ELSE Try("voice-assistant",
             generateResponse(QuestionPrompt("voice-assistant", q.body.message,
                                             Default(q.body.context, JStr(""))),
                              MaxTokens(VoiceMaxTokens)))

-----------------------------------------------------------------------------
(* ResponseValidator: what each handler does with the model's text *)

\* variant: the analyze-document fallback with fixed summaries
AnalyzeFallbackNoText(analysis) ==
    JObj(<< <<"redFlags", JArr(<<>>)>>,
            <<"clauseTags", JArr(<<>>)>>,
            <<"statuteLinks", JArr(<<>>)>>,
            <<"riskAssessment",
              JObj(<< <<"overallRisk", JStr("medium")>>, <<"score", JNum("50")>>,
                      <<"concerns", JArr(<<>>)>> >>)>>,
            <<"simplifiedSummary", JStr("Analysis not available")>>,
            <<"multilingualSummary",
              JObj(<< <<"english", JStr("Analysis not available")>>,
                      <<"hindi", JStr("Analysis not available in Hindi")>> >>)>>,
            <<"recommendations", JArr(<<JStr("Please review the document manually")>>)>> >>)

\* the object analyze-document answers when JSON.parse throws
AnalyzeFallback(analysis) ==
    JObj(<< <<"redFlags", JArr(<<>>)>>,
            <<"clauseTags", JArr(<<>>)>>,
            <<"statuteLinks", JArr(<<>>)>>,
            <<"riskAssessment",
              JObj(<< <<"overallRisk", JStr("medium")>>, <<"score", JNum("50")>>,
                      <<"concerns", JArr(<<>>)>> >>)>>,
            <<"simplifiedSummary", JStr(analysis)>>,
            <<"multilingualSummary",
              JObj(<< <<"english", JStr(analysis)>>,
                      <<"hindi", JStr("Analysis not available in Hindi")>> >>)>>,
            <<"recommendations", JArr(<<JStr("Please review the document manually")>>)>> >>)

AnalyzeBody(analysis) ==
    LET parsed == JSONParse(analysis) IN
    IF parsed.ok THEN parsed.val ELSE AnalyzeFallback(analysis)

RedFlagsFallback ==
    JObj(<< <<"redFlags",
              JArr(<< JObj(<< <<"type", JStr("analysis_error")>>,
                              <<"severity", JStr("low")>>,
                              <<"description", JStr("Could not parse red flag analysis")>>,
                              <<"location", JStr("N/A")>>,
                              <<"recommendation", JStr("Please review the document manually")>>,
                              <<"indianLawReference", JStr("N/A")>> >>) >>)>> >>)

\* variant: the fallback entry quoting the model's text in its description
RedFlagsBodyEcho(response) ==
    LET parsed == JSONParse(response) IN
    IF parsed.ok THEN JObj(<< <<"redFlags", parsed.val>> >>)
    ELSE JObj(<< <<"redFlags",
                   JArr(<< JObj(<< <<"type", JStr("analysis_error")>>,
                                   <<"severity", JStr("low")>>,
                                   <<"description", JStr(response)>> >>) >>)>> >>)

\* variant: a parsed value that is no list is replaced by the fallback
RedFlagsBodyListOnly(response) ==
    LET parsed == JSONParse(response) IN
    IF parsed.ok /\ parsed.val.kind = "array"
    THEN JObj(<< <<"redFlags", parsed.val>> >>)
    ELSE RedFlagsFallback

RedFlagsBody(response) ==
    LET parsed == JSONParse(response) IN
    IF parsed.ok THEN JObj(<< <<"redFlags", parsed.val>> >>) ELSE RedFlagsFallback

TagClausesFallback ==
    JObj(<< <<"clauseTags", JArr(<<>>)>>,
            <<"summary",
              JObj(<< <<"totalClauses", JNum("0")>>, <<"highRiskClauses", JNum("0")>>,
                      <<"categories", JArr(<<>>)>> >>)>> >>)

TagClausesBody(response) ==
    LET parsed == JSONParse(response) IN
    IF parsed.ok THEN parsed.val ELSE TagClausesFallback

LinkStatutesFallback ==
    JObj(<< <<"statuteLinks", JArr(<<>>)>>,
            <<"summary",
              JObj(<< <<"totalLinks", JNum("0")>>, <<"highRiskLinks", JNum("0")>>,
                      <<"statutes", JArr(<<>>)>> >>)>> >>)

LinkStatutesBody(response) ==
    LET parsed == JSONParse(response) IN
    IF parsed.ok THEN parsed.val ELSE LinkStatutesFallback

MultilingualFallback(text) ==
    JObj(<< <<"summaries", JObj(<< <<"english", text>> >>)>>,
            <<"keyPoints", JObj(<< <<"english", JArr(<<JStr("Please review manually")>>)>> >>)>>,
            <<"warnings", JObj(<< <<"english", JArr(<<JStr("Manual review recommended")>>)>> >>)>> >>)

MultilingualBody(text, response) ==
    LET parsed == JSONParse(response) IN
    IF parsed.ok THEN parsed.val ELSE MultilingualFallback(text)

BailFallback(text, bailData) ==
    JObj(<< <<"documentType", JStr("Bail Document")>>,
            <<"extractedText", text>>,
            <<"analysis", JStr(bailData)>> >>)

BailBody(text, bailData) ==
    LET parsed == JSONParse(bailData) IN
    IF parsed.ok THEN parsed.val ELSE BailFallback(text, bailData)

\* simplify, translate, legal-advice, voice-assistant: the text under one key
PlainField(ep) ==
    CASE ep = "simplify" -> "simplifiedText"
      [] ep = "translate" -> "translatedText"
      [] ep = "legal-advice" -> "advice"
      [] ep = "voice-assistant" -> "response"

PlainBody(ep, content) == JObj(<< <<PlainField(ep), JStr(content)>> >>)

\* variant: the analyze-document fallback summarising with the document text
ResponseBodyDocumentEcho(q, doc, content) ==
    CASE q.endpoint = "analyze-document" ->
            IF JSONParse(content).ok THEN JSONParse(content).val
            ELSE JObj(SetMember(AnalyzeFallback(content).members, "simplifiedSummary", doc))
      [] q.endpoint = "detect-red-flags" -> RedFlagsBody(content)
      [] q.endpoint = "tag-clauses" -> TagClausesBody(content)
      [] q.endpoint = "link-statutes" -> LinkStatutesBody(content)
      [] q.endpoint = "multilingual-simplify" -> MultilingualBody(q.body.text, content)
      [] q.endpoint = "process-bail-document" -> BailBody(doc, content)
      [] OTHER -> PlainBody(q.endpoint, content)

\* the body a handler sends once its model call returned `content`
ResponseBody(q, doc, content) ==
    CASE q.endpoint = "analyze-document" -> AnalyzeBody(content)
      [] q.endpoint = "detect-red-flags" -> RedFlagsBody(content)
      [] q.endpoint = "tag-clauses" -> TagClausesBody(content)
      [] q.endpoint = "link-statutes" -> LinkStatutesBody(content)
      [] q.endpoint = "multilingual-simplify" -> MultilingualBody(q.body.text, content)
      [] q.endpoint = "process-bail-document" -> BailBody(doc, content)
      [] OTHER -> PlainBody(q.endpoint, content)

-----------------------------------------------------------------------------
(* Actions *)

(* AuthProvider (browser): the values it works on *)

NumOps == 2
Ops == 1..NumOps

\* localStorage.getItem("legalai_user"): null when there is no entry
NoItem == [present |-> FALSE]
Item(s) == [present |-> TRUE, value |-> s]

DemoEmail == "demo@nyayasaar.com"
OtherEmail == "asha@example.com"

DemoUser ==
    [id |-> "1", email |-> DemoEmail, name |-> "Demo User", role |-> "user",
     avatar |-> "https://ui-avatars.com/api/?name=Demo+User&background=C89B00&color=fff"]

\* the demo accounts of login (the first of its three)
demoUsers == [e \in {DemoEmail} |-> [password |-> "demo123", user |-> DemoUser]]

\* email.split("@")[0]
LocalPart(email) ==
    CASE email = DemoEmail -> "demo"
      [] email = OtherEmail -> "asha"

AvatarUrl(name) == "https://ui-avatars.com/api/?name=" \o name \o "&background=C89B00&color=fff"

\* Date.now().toString() at two moments
Clock == {"1730455200000", "1730455201000"}

\* login's generic user for any other email/password combination
mockUser(email, now) ==
    [id |-> now, email |-> email, name |-> LocalPart(email), role |-> "user",
     avatar |-> AvatarUrl(LocalPart(email))]

\* register's new user
newUser(userData, now) ==
    [id |-> now, email |-> userData.email, name |-> userData.name, role |-> userData.role,
     avatar |-> AvatarUrl(userData.name)]

\* { ...user, ...userData }
Merge(u, userData) ==
    [k \in DOMAIN u \cup DOMAIN userData |-> IF k \in DOMAIN userData THEN userData[k] ELSE u[k]]

\* JSON.stringify of a user: its five members in insertion order
JSONStringify(u) ==
    "{\"id\":\"" \o u.id \o "\",\"email\":\"" \o u.email \o "\",\"name\":\"" \o u.name
        \o "\",\"role\":\"" \o u.role \o "\",\"avatar\":\"" \o u.avatar \o "\"}"

\* the users an earlier visit may have left in the browser
SavedUsers == {DemoUser, mockUser(OtherEmail, "1730455200000")}

EntryTruncated == "{\"id\":\"1\",\"email\":\"demo@nyaya"

\* what "legalai_user" may hold when the provider mounts: nothing, a user an
\* earlier visit saved, or text that is no user (empty, cut short, "null")
StoredEntries ==
    {NoItem, Item(""), Item(EntryTruncated), Item("null")}
        \cup {Item(JSONStringify(u)) : u \in SavedUsers}

\* JSON.parse(savedUser): the saved user, null for "null", else a SyntaxError
ParseSavedUser(text) ==
    CASE text = "null" -> [ok |-> TRUE, val |-> JNull]
      [] \E u \in SavedUsers : JSONStringify(u) = text ->
            [ok |-> TRUE, val |-> CHOOSE u \in SavedUsers : JSONStringify(u) = text]
      [] OTHER -> [ok |-> FALSE, val |-> JNull]

\* the arguments the calls are made with
Logins ==
    { [email |-> DemoEmail, password |-> "demo123"],
      [email |-> DemoEmail, password |-> "wrong"],
      [email |-> OtherEmail, password |-> "secret"] }

Registrations ==
    { [name |-> "Asha Rao", email |-> OtherEmail, password |-> "secret", role |-> "lawyer"] }

ProfileUpdates == { [name |-> "Asha R."] }

\* a call that has not been made
NoOp == [kind |-> "none", status |-> "idle", arg |-> [email |-> ""], closure |-> JNull,
         stale |-> FALSE]

\* useState(null), useState(true), the effect not yet run
Unmounted ==
    /\ user = JNull
    /\ isLoading = TRUE
    /\ authOps = [o \in Ops |-> NoOp]
    /\ mounted = FALSE
    /\ authLog = [boot |-> localStorage, loggedOut |-> FALSE, fresh |-> FALSE]

\* no method of GoogleCloudProvider called yet
NoCall == [fn |-> "none"]

Uncalled == clientCall = NoCall

-----------------------------------------------------------------------------
\* the environment's GROK_API_KEY values: unset, or a key
ApiKeys == {"", "xai-key"}

\* the server once app.listen has run: no request received yet
Listening ==
    /\ grokAPI \in {[apiKey |-> k, baseURL |-> "https://api.x.ai/v1"] : k \in ApiKeys}
    /\ pc = [r \in Reqs |-> "idle"]
    /\ req = [r \in Reqs |-> NoRequest]
    /\ documentText = [r \in Reqs |-> JUndef]
    /\ calls = [r \in Reqs |-> <<>>]
    /\ modelResponse = [r \in Reqs |-> NoAnswer]
    /\ res = [r \in Reqs |-> <<>>]
    /\ caught = [r \in Reqs |-> ""]
    /\ extractCalls = [r \in Reqs |-> 0]
    /\ aborted = [r \in Reqs |-> FALSE]

\* the browser side before the providers have mounted, with nothing stored
Unopened == localStorage = NoItem /\ Unmounted /\ Uncalled /\ geminiAI = JNull

Init == Listening /\ upload = NoFile /\ extracted = NotExtracted /\ Unopened

\* the extractor on its own: any declared type over any content
InitExtract == Listening /\ upload \in UploadFiles /\ extracted = NotExtracted /\ Unopened

\* request r has not been received yet
Arrives(r) == pc[r] = "idle"

\* Request 1 draws its input and its model answer from the full sets; the
\* requests served concurrently with it draw from these smaller ones.
TextValuesOf(r) == IF r = 1 THEN TextValues ELSE {JUndef, JStr(TextB)}

FilesOf(r) ==
    IF r = 1 THEN Files \cup {NoFile}
    ELSE {NoFile, File("notes.txt", MimePlain, "text", TextA)}

RawTextsOf(r) == IF r = 1 THEN RawTexts ELSE {RawNotJson, RawNumber}

UpstreamErrorsOf(r) == IF r = 1 THEN UpstreamErrors ELSE {"socket hang up"}

\* variant: documentText declared at module level, shared by all requests
ApplyShared(r, q, doc, out) ==
    /\ UNCHANGED <<aborted, upload, extracted, authVars, clientVars>>
    /\ req' = [req EXCEPT ![r] = q]
    /\ documentText' = [s \in Reqs |-> doc]
    /\ CASE out.kind = "reply" ->
              /\ pc' = [pc EXCEPT ![r] = "done"]
              /\ res' = [res EXCEPT ![r] = Append(@, [status |-> out.status, body |-> out.body])]
              /\ caught' = [caught EXCEPT ![r] = out.error]
              /\ UNCHANGED <<calls, extractCalls>>
         [] out.kind = "call" ->
              /\ pc' = [pc EXCEPT ![r] = "awaiting"]
              /\ calls' = [calls EXCEPT ![r] = Append(@, out.request)]
              /\ UNCHANGED <<res, caught, extractCalls>>
         [] out.kind = "extract" ->
              /\ pc' = [pc EXCEPT ![r] = "extracting"]
              /\ extractCalls' = [extractCalls EXCEPT ![r] = @ + 1]
              /\ UNCHANGED <<res, caught, calls>>

\* run request r's handler to the outcome `out`, with request q and local text doc
Apply(r, q, doc, out) ==
    /\ UNCHANGED <<aborted, upload, extracted, authVars, clientVars>>
    /\ req' = [req EXCEPT ![r] = q]
    /\ documentText' = [documentText EXCEPT ![r] = doc]
    /\ CASE out.kind = "reply" ->
              /\ pc' = [pc EXCEPT ![r] = "done"]
              /\ res' = [res EXCEPT ![r] = Append(@, [status |-> out.status, body |-> out.body])]
              /\ caught' = [caught EXCEPT ![r] = out.error]
              /\ UNCHANGED <<calls, extractCalls>>
         [] out.kind = "call" ->
              /\ pc' = [pc EXCEPT ![r] = "awaiting"]
              /\ calls' = [calls EXCEPT ![r] = Append(@, out.request)]
              /\ UNCHANGED <<res, caught, extractCalls>>
         [] out.kind = "extract" ->
              /\ pc' = [pc EXCEPT ![r] = "extracting"]
              /\ extractCalls' = [extractCalls EXCEPT ![r] = @ + 1]
              /\ UNCHANGED <<res, caught, calls>>

\* POST /api/analyze-document
AnalyzeDocument(r) ==
    /\ Arrives(r)
    /\ \E text \in TextValuesOf(r), file \in FilesOf(r) :
         LET q == [endpoint |-> "analyze-document",
                   body |-> [text |-> text, language |-> JUndef], file |-> file]
         IN Apply(r, q, text, AnalyzeStart(q))
    /\ UNCHANGED <<grokAPI, modelResponse>>

\* POST /api/simplify
Simplify(r) ==
    /\ Arrives(r)
    /\ \E text \in TextValuesOf(r) :
         LET q == [endpoint |-> "simplify",
                   body |-> [text |-> text, language |-> JUndef], file |-> NoFile]
         IN Apply(r, q, JUndef, SimplifyStart(q))
    /\ UNCHANGED <<grokAPI, modelResponse>>

\* POST /api/detect-red-flags
DetectRedFlags(r) ==
    /\ Arrives(r)
    /\ \E text \in TextValuesOf(r) :
         LET q == [endpoint |-> "detect-red-flags", body |-> [text |-> text], file |-> NoFile]
         IN Apply(r, q, JUndef, TextStart("detect-red-flags", q))
    /\ UNCHANGED <<grokAPI, modelResponse>>

\* POST /api/tag-clauses
TagClauses(r) ==
    /\ Arrives(r)
    /\ \E text \in TextValuesOf(r) :
         LET q == [endpoint |-> "tag-clauses", body |-> [text |-> text], file |-> NoFile]
         IN Apply(r, q, JUndef, TextStart("tag-clauses", q))
    /\ UNCHANGED <<grokAPI, modelResponse>>

\* POST /api/link-statutes
LinkStatutes(r) ==
    /\ Arrives(r)
    /\ \E text \in TextValuesOf(r) :
         LET q == [endpoint |-> "link-statutes", body |-> [text |-> text], file |-> NoFile]
         IN Apply(r, q, JUndef, TextStart("link-statutes", q))
    /\ UNCHANGED <<grokAPI, modelResponse>>

\* POST /api/multilingual-simplify
MultilingualSimplify(r) ==
    /\ Arrives(r)
    /\ \E text \in TextValuesOf(r), languages \in LanguageLists :
         LET q == [endpoint |-> "multilingual-simplify",
                   body |-> [text |-> text, languages |-> languages], file |-> NoFile]
         IN Apply(r, q, JUndef, MultilingualStart(q))
    /\ UNCHANGED <<grokAPI, modelResponse>>

\* POST /api/translate
Translate(r) ==
    /\ Arrives(r)
    /\ \E text \in TextValuesOf(r), targetLanguage \in TargetLanguages :
         LET q == [endpoint |-> "translate",
                   body |-> [text |-> text, targetLanguage |-> targetLanguage], file |-> NoFile]
         IN Apply(r, q, JUndef, TranslateStart(q))
    /\ UNCHANGED <<grokAPI, modelResponse>>

\* POST /api/process-bail-document
ProcessBailDocument(r) ==
    /\ Arrives(r)
    /\ \E file \in FilesOf(r) :
         LET q == [endpoint |-> "process-bail-document", body |-> [text |-> JUndef], file |-> file]
         IN Apply(r, q, JUndef, BailStart(q))
    /\ UNCHANGED <<grokAPI, modelResponse>>

\* POST /api/legal-advice
LegalAdvice(r) ==
    /\ Arrives(r)
    /\ \E question \in TextValuesOf(r) :
         LET q == [endpoint |-> "legal-advice",
                   body |-> [question |-> question, context |-> JUndef], file |-> NoFile]
         IN Apply(r, q, JUndef, AdviceStart(q))
    /\ UNCHANGED <<grokAPI, modelResponse>>

\* POST /api/voice-assistant
VoiceAssistant(r) ==
    /\ Arrives(r)
    /\ \E message \in TextValuesOf(r) :
         LET q == [endpoint |-> "voice-assistant",
                   body |-> [message |-> message, context |-> JUndef], file |-> NoFile]
         IN Apply(r, q, JUndef, VoiceStart(q))
    /\ UNCHANGED <<grokAPI, modelResponse>>

\* what express.json and multer pass to next(err) before any handler runs:
\* a body that is no JSON, an upload over the 10 MB limit
MiddlewareErrors == {"entity.parse.failed", "LIMIT_FILE_SIZE"}

MiddlewareMessage == "Internal server error"

\* the request as the server has it when a middleware failed: no route ran
UnroutedRequest == [endpoint |-> "unrouted", body |-> [text |-> JUndef], file |-> NoFile]

\* the error-handling middleware: log the error, answer 500
errorMiddleware(error) ==
    [kind |-> "reply", status |-> 500, body |-> ErrorBody(MiddlewareMessage), error |-> error]

\* a request that express.json or multer rejects: the error handler answers it
RejectedByMiddleware(r) ==
    /\ Arrives(r)
    /\ \E error \in (IF r = 1 THEN MiddlewareErrors ELSE {"entity.parse.failed"}) :
         Apply(r, UnroutedRequest, JUndef, errorMiddleware(error))
    /\ UNCHANGED <<grokAPI, modelResponse>>

\* variant: a file that extracts to nothing leaves the text field in place
ExtractDoneTextFallback(r) ==
    /\ pc[r] = "extracting"
    /\ LET x == extractTextFromFile(req[r].file)
           ep == req[r].endpoint
           doc == IF x.ok /\ x.text = "" THEN req[r].body.text ELSE JStr(x.text)
       IN IF ~x.ok
          THEN Apply(r, req[r], documentText[r], Caught(ep, x.error))
          ELSE Apply(r, req[r], doc,
                     IF ep = "analyze-document" THEN AnalyzeWithText(doc) ELSE BailWithText(doc))
    /\ UNCHANGED <<grokAPI, modelResponse>>

\* `await extractTextFromFile(req.file)` settles: the handler goes on with the
\* text, or its catch block answers 500
ExtractDone(r) ==
    /\ pc[r] = "extracting"
    /\ LET x == extractTextFromFile(req[r].file)
           ep == req[r].endpoint
       IN IF ~x.ok
          THEN Apply(r, req[r], documentText[r], Caught(ep, x.error))
          ELSE Apply(r, req[r], JStr(x.text),
                     IF ep = "analyze-document"
                     THEN AnalyzeWithText(JStr(x.text))
                     ELSE BailWithText(JStr(x.text)))
    /\ UNCHANGED <<grokAPI, modelResponse>>

\* variant: JSON.parse outside an inner try, so a SyntaxError reaches the
\* handler's catch block
ModelAnswerNoInnerTry(r) ==
    /\ pc[r] = "awaiting"
    /\ \E content \in RawTextsOf(r) :
         /\ modelResponse' = [modelResponse EXCEPT ![r] = [ok |-> TRUE, content |-> content, error |-> ""]]
         /\ Apply(r, req[r], documentText[r],
                  IF req[r].endpoint \in ParsingEndpoints /\ ~JSONParse(content).ok
                  THEN Caught(req[r].endpoint, "Unexpected token in JSON")
                  ELSE Reply(200, ResponseBody(req[r], documentText[r], content)))
    /\ UNCHANGED grokAPI

\* the axios.post resolves with a completion: the handler validates and answers
ModelAnswer(r) ==
    /\ pc[r] = "awaiting"
    /\ \E content \in RawTextsOf(r) :
         /\ modelResponse' = [modelResponse EXCEPT ![r] = [ok |-> TRUE, content |-> content, error |-> ""]]
         /\ Apply(r, req[r], documentText[r],
                  Reply(200, ResponseBody(req[r], documentText[r], content)))
    /\ UNCHANGED grokAPI

\* variant: the gateway posting once more after a first rejection
ModelFailRetry(r) ==
    /\ pc[r] = "awaiting"
    /\ \E e \in UpstreamErrorsOf(r) :
         /\ modelResponse' = [modelResponse EXCEPT ![r] = [ok |-> FALSE, content |-> "", error |-> e]]
         /\ IF Len(calls[r]) < 2
            THEN Apply(r, req[r], documentText[r], [kind |-> "call", request |-> calls[r][1]])
            ELSE Apply(r, req[r], documentText[r], Caught(req[r].endpoint, GatewayErrorMessage))
    /\ UNCHANGED grokAPI

\* the axios.post rejects: generateResponse logs it and throws its own Error,
\* which the handler's catch block answers with 500
ModelFail(r) ==
    /\ pc[r] = "awaiting"
    /\ \E e \in UpstreamErrorsOf(r) :
         /\ modelResponse' = [modelResponse EXCEPT ![r] = [ok |-> FALSE, content |-> "", error |-> e]]
         /\ Apply(r, req[r], documentText[r], Caught(req[r].endpoint, GatewayErrorMessage))
    /\ UNCHANGED grokAPI

Next ==
    \E r \in Reqs :
        \/ AnalyzeDocument(r)
        \/ Simplify(r)
        \/ DetectRedFlags(r)
        \/ TagClauses(r)
        \/ LinkStatutes(r)
        \/ MultilingualSimplify(r)
        \/ Translate(r)
        \/ ProcessBailDocument(r)
        \/ LegalAdvice(r)
        \/ VoiceAssistant(r)
        \/ RejectedByMiddleware(r)
        \/ ExtractDone(r)
        \/ ModelAnswer(r)
        \/ ModelFail(r)

Spec == Init /\ [][Next]_vars

\* one application of extractTextFromFile to the uploaded file
ExtractText ==
    /\ extracted = NotExtracted
    /\ extracted' = extractTextFromFile(upload)
    /\ UNCHANGED <<serverVars, upload, authVars, clientVars>>

NextExtract == ExtractText

SpecExtract == InitExtract /\ [][NextExtract]_vars

\* the caller closes the connection while its model call is pending: no
\* handler listens for it and the axios call carries no abort signal
Abort(r) ==
    /\ pc[r] = "awaiting"
    /\ ~aborted[r]
    /\ aborted' = [aborted EXCEPT ![r] = TRUE]
    /\ UNCHANGED <<grokAPI, pc, req, documentText, calls, modelResponse, res, caught,
                   extractCalls, upload, extracted, authVars, clientVars>>

NextCancel == Next \/ \E r \in Reqs : Abort(r)

\* the server with callers that may go away
SpecCancel == Init /\ [][NextCancel]_vars

-----------------------------------------------------------------------------
(* GoogleCloudProvider (browser): translateText and detectRedFlags *)

\* what a fetch settles with: a rejection, or a response with status and body
NetworkError == [kind |-> "error"]
HttpResponse(status, body) == [kind |-> "response", status |-> status, body |-> body]

\* response.ok
IsOk(response) == response.status \in 200..299

Statuses == {200, 400, 429, 500}

TranslateBodies ==
    {BodyTranslated, BodyEmptyTranslation, RawEmptyObject, RawNull, RawNumber, BodyError, BodyHtml}

FlagBodies ==
    {BodyFlags, BodyNoFlags, BodyFlagsNumber, RawEmptyObject, RawNull, BodyError, BodyHtml}

FetchOutcomes(bodies) ==
    {NetworkError} \cup {HttpResponse(st, b) : st \in Statuses, b \in bodies}

\* what model.generateContent and result.response settle with: a rejection,
\* or a response whose text() is the model's raw text
GeminiOutcomes == {[kind |-> "error"]} \cup {[kind |-> "text", text |-> t] : t \in RawTexts}

ClientTexts == {TextA, TextB}

ClientLanguages == {"hi", "ta"}

\* the direct model client when VITE_GOOGLE_API_KEY is set
GeminiClient == [kind |-> "client", model |-> "gemini-1.5-flash"]

\* data.k: undefined on a value that is no object, a TypeError on null
Throws(v) == v.kind \in {"null", "undefined"}
Prop(v, k) == IF v.kind = "object" THEN Get(v, k) ELSE JUndef

Returns(v) == [threw |-> FALSE, value |-> v]
Rejects(msg) == [threw |-> TRUE, value |-> JStr(msg)]

\* the body of a try block that fetches, checks response.ok, reads
\* response.json() and returns `data[field] || fallback`
FetchField(outcome, field, failure, fallback) ==
    IF outcome.kind = "error" THEN Rejects("Failed to fetch")
    ELSE IF ~IsOk(outcome) THEN Rejects(failure)
    ELSE LET data == JSONParse(outcome.body) IN
         IF ~data.ok THEN Rejects("Unexpected token in JSON")
         ELSE IF Throws(data.val) THEN Rejects("Cannot read properties of null")
         ELSE IF Falsy(Prop(data.val, field)) THEN Returns(fallback)
         ELSE Returns(Prop(data.val, field))

\* try { ... } catch (err) { console.error(...); return fallback }
CatchReturn(out, fallback) == IF out.threw THEN Returns(fallback) ELSE out

\* variant: translateText letting the failure of its fetch through
translateTextUncaught(text, targetLanguage, outcome) ==
    FetchField(outcome, "translatedText", "Translation failed", JStr(text))

translateText(text, targetLanguage, outcome) ==
    CatchReturn(FetchField(outcome, "translatedText", "Translation failed", JStr(text)),
                JStr(text))

\* the entry detectRedFlags returns when JSON.parse throws
ClientFlagsFallback ==
    JArr(<< JObj(<< <<"type", JStr("analysis_error")>>,
                    <<"severity", JStr("low")>>,
                    <<"description", JStr("Could not parse red flag analysis")>>,
                    <<"location", JStr("N/A")>>,
                    <<"recommendation", JStr("Please review the document manually")>> >>) >>)

\* detectRedFlags: through the backend when there is no direct client, else
\* through the direct client with its own JSON.parse and fallback
detectRedFlags(client, text, outcome) ==
    IF client = JNull
    THEN CatchReturn(FetchField(outcome, "redFlags", "Red flag detection failed", JArr(<<>>)),
                     JArr(<<>>))
    ELSE CatchReturn(IF outcome.kind = "error" THEN Rejects("generateContent failed")
                     ELSE LET parsed == JSONParse(outcome.text) IN
                          IF parsed.ok THEN Returns(parsed.val) ELSE Returns(ClientFlagsFallback),
                     JArr(<<>>))

InitClient ==
    /\ Listening /\ grokAPI.apiKey = ""
    /\ upload = NoFile /\ extracted = NotExtracted
    /\ localStorage = NoItem /\ Unmounted
    /\ Uncalled
    /\ geminiAI \in {JNull, GeminiClient}

\* one call of translateText, with what its fetch settled with
TranslateText ==
    /\ clientCall = NoCall
    /\ \E text \in ClientTexts, targetLanguage \in ClientLanguages,
          outcome \in FetchOutcomes(TranslateBodies) :
         clientCall' = [fn |-> "translateText", text |-> text, outcome |-> outcome,
                        returned |-> translateText(text, targetLanguage, outcome)]
    /\ UNCHANGED <<geminiAI, serverVars, upload, extracted, authVars>>

\* one call of detectRedFlags, with what its fetch or its model call settled with
DetectRedFlagsCall ==
    /\ clientCall = NoCall
    /\ \E text \in ClientTexts,
          outcome \in (IF geminiAI = JNull THEN FetchOutcomes(FlagBodies) ELSE GeminiOutcomes) :
         clientCall' = [fn |-> "detectRedFlags", text |-> text, outcome |-> outcome,
                        returned |-> detectRedFlags(geminiAI, text, outcome)]
    /\ UNCHANGED <<geminiAI, serverVars, upload, extracted, authVars>>

NextClient == TranslateText \/ DetectRedFlagsCall

SpecClient == InitClient /\ [][NextClient]_vars

-----------------------------------------------------------------------------
(* AuthProvider (browser) *)

\* the provider before its effect, over whatever the browser has stored
InitAuth ==
    /\ Listening /\ grokAPI.apiKey = ""
    /\ upload = NoFile /\ extracted = NotExtracted
    /\ localStorage \in StoredEntries
    /\ Unmounted /\ Uncalled /\ geminiAI = JNull

\* the useEffect that restores the session: `if (savedUser)` parse it and set
\* the user, or remove the entry when JSON.parse throws; then isLoading false
Mount ==
    /\ ~mounted
    /\ LET savedUser == localStorage IN
       IF savedUser.present /\ savedUser.value # ""
       THEN IF ParseSavedUser(savedUser.value).ok
            THEN user' = ParseSavedUser(savedUser.value).val /\ UNCHANGED localStorage
            ELSE localStorage' = NoItem /\ UNCHANGED user
       ELSE UNCHANGED <<user, localStorage>>
    /\ isLoading' = FALSE
    /\ mounted' = TRUE
    /\ UNCHANGED <<authOps, authLog, serverVars, upload, extracted, clientVars>>

\* an async method up to its await: setIsLoading(true), then the timer; the
\* method closes over the user of the render it was called from
Begin(o, kind, arg) ==
    /\ mounted
    /\ authOps[o].status = "idle"
    /\ authOps' = [authOps EXCEPT ![o] = [kind |-> kind, status |-> "pending", arg |-> arg,
                                          closure |-> user, stale |-> FALSE]]
    /\ isLoading' = TRUE
    /\ UNCHANGED <<user, localStorage, mounted, authLog, serverVars, upload, extracted, clientVars>>

\* the continuation after the timer: setUser(u), localStorage.setItem, and in
\* the finally block setIsLoading(false)
Finish(o, u) ==
    /\ authOps[o].status = "pending"
    /\ user' = u
    /\ localStorage' = Item(JSONStringify(u))
    /\ isLoading' = FALSE
    /\ authOps' = [authOps EXCEPT ![o].status = "done"]
    /\ authLog' = [authLog EXCEPT !.fresh = @ \/ ~authOps[o].stale]
    /\ UNCHANGED <<mounted, serverVars, upload, extracted, clientVars>>

LoginStart(o) ==
    /\ authOps[o].status = "idle"
    /\ \E c \in Logins : Begin(o, "login", c)

LoginDone(o) ==
    /\ authOps[o].kind = "login"
    /\ \E now \in Clock :
         LET c == authOps[o].arg IN
         Finish(o, IF c.email \in DOMAIN demoUsers /\ demoUsers[c.email].password = c.password
                   THEN demoUsers[c.email].user
                   ELSE mockUser(c.email, now))

RegisterStart(o) ==
    /\ authOps[o].status = "idle"
    /\ \E userData \in Registrations : Begin(o, "register", userData)

RegisterDone(o) ==
    /\ authOps[o].kind = "register"
    /\ \E now \in Clock : Finish(o, newUser(authOps[o].arg, now))

\* updateProfile: `if (!user) return`, else as the others
UpdateProfileStart(o) ==
    \E userData \in ProfileUpdates :
        IF user = JNull
        THEN /\ mounted
             /\ authOps[o].status = "idle"
             /\ authOps' = [authOps EXCEPT ![o] = [kind |-> "updateProfile", status |-> "done",
                                                   arg |-> userData, closure |-> user,
                                                   stale |-> FALSE]]
             /\ UNCHANGED <<user, isLoading, localStorage, mounted, authLog, serverVars,
                            upload, extracted, clientVars>>
        ELSE Begin(o, "updateProfile", userData)

UpdateProfileDone(o) ==
    /\ authOps[o].kind = "updateProfile"
    /\ authOps[o].status = "pending"
    /\ Finish(o, Merge(authOps[o].closure, authOps[o].arg))

\* logout: setUser(null), removeItem; the calls still pending are not told
Logout ==
    /\ mounted
    /\ user' = JNull
    /\ localStorage' = NoItem
    /\ authOps' = [o \in Ops |-> IF authOps[o].status = "pending"
                                 THEN [authOps[o] EXCEPT !.stale = TRUE]
                                 ELSE authOps[o]]
    /\ authLog' = [authLog EXCEPT !.loggedOut = TRUE, !.fresh = FALSE]
    /\ UNCHANGED <<isLoading, mounted, serverVars, upload, extracted, clientVars>>

NextAuth ==
    \/ Mount
    \/ Logout
    \/ \E o \in Ops :
          \/ LoginStart(o)
          \/ LoginDone(o)
          \/ RegisterStart(o)
          \/ RegisterDone(o)
          \/ UpdateProfileStart(o)
          \/ UpdateProfileDone(o)

SpecAuth == InitAuth /\ [][NextAuth]_vars

\* The event loop runs every settled continuation; nothing obliges the
\* external model to answer, so ModelAnswer and ModelFail carry no fairness.
FairSpec == Spec /\ \A r \in Reqs : WF_vars(ExtractDone(r))

-----------------------------------------------------------------------------
(* Properties *)

Done(r) == pc[r] = "done"

\* the response request r received
Response(r) == res[r][1]

\* the model call of request r returned a completion
Answered(r) == modelResponse[r].ok

\* a required body field that was left out or sent empty
Absent(x) == x = JUndef \/ x = JStr("")

\* the canonical top-level shape of each parsing task: the fields and field
\* kinds of the JSON skeleton its prompt gives the model
CanonicalShape(ep) ==
    CASE ep = "analyze-document" ->
            << <<"redFlags", "array">>, <<"clauseTags", "array">>, <<"statuteLinks", "array">>,
               <<"riskAssessment", "object">>, <<"simplifiedSummary", "string">>,
               <<"multilingualSummary", "object">>, <<"recommendations", "array">> >>
      [] ep = "detect-red-flags" -> << <<"redFlags", "array">> >>
      [] ep = "tag-clauses" -> << <<"clauseTags", "array">>, <<"summary", "object">> >>
      [] ep = "link-statutes" -> << <<"statuteLinks", "array">>, <<"summary", "object">> >>
      [] ep = "multilingual-simplify" ->
            << <<"summaries", "object">>, <<"keyPoints", "object">>, <<"warnings", "object">> >>
      [] OTHER -> <<>>

HasShape(body, shape) ==
    /\ body.kind = "object"
    /\ {body.members[i][1] : i \in 1..Len(body.members)} = {shape[i][1] : i \in 1..Len(shape)}
    /\ \A i \in 1..Len(shape) : Get(body, shape[i][1]).kind = shape[i][2]

\* process-bail-document gives the model no skeleton: any JSON object counts
Conforms(ep, body) ==
    IF ep = "process-bail-document" THEN body.kind = "object"
    ELSE HasShape(body, CanonicalShape(ep))

\* C1 (as claimed): on every parsing endpoint, whatever raw text the model
\* returned (any JSON value, malformed JSON, the empty string), the 200
\* response body has the task's canonical top-level fields and field kinds.
C1_SchemaInvariance ==
    \A r \in Reqs :
        (Done(r) /\ req[r].endpoint \in ParsingEndpoints /\ Answered(r))
            => Conforms(req[r].endpoint, Response(r).body)

\* C2: detect-red-flags, model text that does not parse: the response is 200
\* and redFlags is a list of exactly one entry, of type "analysis_error" and
\* severity "low"; the body is the same whatever the raw text and the input
\* text were.
Unparsable(r) ==
    /\ Done(r) /\ req[r].endpoint = "detect-red-flags"
    /\ Answered(r) /\ ~JSONParse(modelResponse[r].content).ok

C2_FallbackDeterminism ==
    \A r \in Reqs :
        Unparsable(r) =>
            /\ Response(r).status = 200
            /\ Keys(Response(r).body) = <<"redFlags">>
            /\ LET flags == Get(Response(r).body, "redFlags") IN
                /\ flags.kind = "array"
                /\ Len(flags.items) = 1
                /\ Get(flags.items[1], "type") = JStr("analysis_error")
                /\ Get(flags.items[1], "severity") = JStr("low")
            /\ \A s \in Reqs : Unparsable(s) => Response(s).body = Response(r).body

C2_Witness ==
    \E r \in Reqs :
        /\ Unparsable(r)
        /\ modelResponse[r].content = RawNotJson
        /\ Response(r).status = 200

\* C3: a request that lacks a required input (text; text or targetLanguage
\* for translate; question; message; the file for process-bail-document) is
\* answered 400, and neither a model call nor a text extraction was made.
MissingInput(q) ==
    CASE q.endpoint \in {"simplify", "detect-red-flags", "tag-clauses", "link-statutes",
                         "multilingual-simplify"} -> Absent(q.body.text)
      [] q.endpoint = "translate" -> Absent(q.body.text) \/ Absent(q.body.targetLanguage)
      [] q.endpoint = "legal-advice" -> Absent(q.body.question)
      [] q.endpoint = "voice-assistant" -> Absent(q.body.message)
      [] q.endpoint = "process-bail-document" -> q.file = NoFile
      [] OTHER -> FALSE

C3_InputValidation ==
    \A r \in Reqs :
        MissingInput(req[r]) =>
            /\ Done(r)
            /\ Len(res[r]) = 1
            /\ Response(r).status = 400
            /\ calls[r] = <<>>
            /\ extractCalls[r] = 0

C3_Witness ==
    \E r \in Reqs :
        /\ req[r].endpoint = "translate"
        /\ req[r].body.text = JStr(TextA)
        /\ req[r].body.targetLanguage = JUndef
        /\ Done(r) /\ Response(r).status = 400
        /\ grokAPI.apiKey # ""

\* C4: analyze-document with neither a file nor a text is answered 400 and
\* makes no model call.
C4_AnalyzeRejectsEmpty ==
    \A r \in Reqs :
        (req[r].endpoint = "analyze-document" /\ req[r].file = NoFile /\ Absent(req[r].body.text))
            => /\ Done(r)
               /\ Response(r).status = 400
               /\ calls[r] = <<>>

C4_Witness ==
    \E r \in Reqs :
        /\ req[r].endpoint = "analyze-document"
        /\ req[r].file = NoFile /\ req[r].body.text = JUndef
        /\ Done(r) /\ Response(r).status = 400
        /\ grokAPI.apiKey # ""

\* C5: detect-red-flags, model text that parses as JSON: the response is 200
\* with body {redFlags: V}, V being the parsed value itself; for the one-entry
\* penalty_clause answer, V is that one entry, unchanged.
PenaltyFlags ==
    JArr(<< JObj(<< <<"type", JStr("penalty_clause")>>, <<"severity", JStr("high")>> >>) >>)

C5_PassThrough ==
    \A r \in Reqs :
        (Done(r) /\ req[r].endpoint = "detect-red-flags" /\ Answered(r)
            /\ JSONParse(modelResponse[r].content).ok)
            => /\ Response(r).status = 200
               /\ Response(r).body =
                    JObj(<< <<"redFlags", JSONParse(modelResponse[r].content).val>> >>)
               /\ modelResponse[r].content = RawFlagArray
                    => Response(r).body = JObj(<< <<"redFlags", PenaltyFlags>> >>)

C5_Witness ==
    \E r \in Reqs :
        /\ Done(r) /\ req[r].endpoint = "detect-red-flags"
        /\ req[r].body.text = JStr(TextA)
        /\ modelResponse[r] = [ok |-> TRUE, content |-> RawFlagArray, error |-> ""]
        /\ Response(r).body = JObj(<< <<"redFlags", PenaltyFlags>> >>)

\* C6: every step touches the state of one request only and leaves the
\* gateway object as it was; the response a request receives is the one
\* determined by its own request and the model's answer to its own call, and
\* nothing changes it afterwards.
Local(r) ==
    <<pc[r], req[r], documentText[r], calls[r], modelResponse[r], res[r], caught[r],
      extractCalls[r]>>

StartOutcome(q) ==
    CASE q.endpoint = "analyze-document" -> AnalyzeStart(q)
      [] q.endpoint = "simplify" -> SimplifyStart(q)
      [] q.endpoint \in {"detect-red-flags", "tag-clauses", "link-statutes"} ->
            TextStart(q.endpoint, q)
      [] q.endpoint = "multilingual-simplify" -> MultilingualStart(q)
      [] q.endpoint = "translate" -> TranslateStart(q)
      [] q.endpoint = "process-bail-document" -> BailStart(q)
      [] q.endpoint = "legal-advice" -> AdviceStart(q)
      [] q.endpoint = "voice-assistant" -> VoiceStart(q)
      [] OTHER -> errorMiddleware("")

\* the outcome of the model call of q for the answer m
AfterCall(q, doc, out, m) ==
    IF out.kind = "reply" THEN out
    ELSE IF m.ok THEN Reply(200, ResponseBody(q, doc, m.content))
    ELSE Caught(q.endpoint, GatewayErrorMessage)

OwnOutcome(q, m) ==
    LET start == StartOutcome(q) IN
    IF start.kind = "extract"
    THEN LET x == extractTextFromFile(q.file) IN
         IF ~x.ok THEN Caught(q.endpoint, x.error)
         ELSE AfterCall(q, JStr(x.text),
                        IF q.endpoint = "analyze-document"
                        THEN AnalyzeWithText(JStr(x.text))
                        ELSE BailWithText(JStr(x.text)),
                        m)
    ELSE AfterCall(q, JUndef, start, m)

OwnResponse(q, m) ==
    LET o == OwnOutcome(q, m) IN [status |-> o.status, body |-> o.body]

C6_Step ==
    /\ grokAPI' = grokAPI
    /\ Cardinality({s \in Reqs : Local(s)' # Local(s)}) <= 1
    /\ \A r \in Reqs :
          IF pc[r] = "done"
          THEN Local(r)' = Local(r)
          ELSE pc'[r] = "done" => res'[r] = <<OwnResponse(req'[r], modelResponse'[r])>>

C6_ConcurrentIndependence == [][C6_Step]_vars

\* two process-bail-document requests with different files, each answered with
\* the fallback that carries its own file's text
C6_Witness ==
    /\ Done(1) /\ Done(2)
    /\ req[1].endpoint = "process-bail-document" /\ req[2].endpoint = "process-bail-document"
    /\ Answered(1) /\ Answered(2)
    /\ modelResponse[1].content = RawNotJson /\ modelResponse[2].content = RawNotJson
    /\ Get(Response(1).body, "extractedText") = JStr(TextB)
    /\ Get(Response(2).body, "extractedText") = JStr(TextA)

\* C7: on a parsing endpoint, a model call that returned is answered 200
\* whatever its text, and a request whose extraction or model call failed is
\* answered 500 with an error body, never with a result.
C7_ShapeNeverAnError ==
    \A r \in Reqs :
        (Done(r) /\ req[r].endpoint \in ParsingEndpoints) =>
            /\ Answered(r) => (Response(r).status = 200 /\ caught[r] = "")
            /\ caught[r] # "" =>
                  /\ Response(r).status = 500
                  /\ Keys(Response(r).body) = <<"error">>
                  /\ ~Answered(r)

C7_Witness ==
    \E r \in Reqs :
        /\ Done(r) /\ req[r].endpoint = "tag-clauses"
        /\ Answered(r) /\ modelResponse[r].content = RawTruncated
        /\ Response(r) = [status |-> 200, body |-> TagClausesFallback]

\* C8 (as claimed): two requests to the same endpoint that failed in
\* different stages (extraction, missing credentials, transport, timeout)
\* receive different responses.
FailureKind(r) ==
    CASE caught[r] = ExtractErrorMessage -> "ExtractionError"
      [] caught[r] = KeyErrorMessage -> "ModelUnavailable"
      [] caught[r] = GatewayErrorMessage -> "ModelTransportError"
      [] OTHER -> "none"

C8_DistinctFailureKinds ==
    \A r, s \in Reqs :
        (Done(r) /\ Done(s) /\ req[r].endpoint = req[s].endpoint
            /\ FailureKind(r) # "none" /\ FailureKind(s) # "none"
            /\ FailureKind(r) # FailureKind(s))
            => Response(r) # Response(s)

\* C9 (as claimed): every pending model call ends, so every request that
\* reached the model call eventually receives a response.
C9_ModelCallTerminates ==
    \A r \in Reqs : (pc[r] = "awaiting") ~> Done(r)

\* C10: serving one request issues at most one request to the external
\* model, whichever way the request ends.
C10_SingleExternalCall ==
    \A r \in Reqs : Len(calls[r]) <= 1

C10_Witness ==
    \E r \in Reqs :
        /\ Done(r) /\ Len(calls[r]) = 1
        /\ FailureKind(r) = "ModelTransportError"
        /\ Response(r).status = 500

\* C11: with no API key configured no request is ever sent to the model, and
\* every request that reaches the gateway is answered with a failure response
\* (status 500, an error body), never with a 200 or a fallback result.
C11_ModelUnavailable ==
    grokAPI.apiKey = "" =>
        \A r \in Reqs :
            /\ calls[r] = <<>>
            /\ pc[r] # "awaiting"
            /\ ~Answered(r)
            /\ Done(r) =>
                  /\ Response(r).status \in {400, 500}
                  /\ Keys(Response(r).body) = <<"error">>
            /\ (Done(r) /\ req[r].endpoint \in Endpoints /\ ~MissingInput(req[r])
                  /\ ~(req[r].endpoint = "analyze-document" /\ Falsy(documentText[r])))
                  => Response(r).status = 500

C11_Witness ==
    \E r \in Reqs :
        /\ grokAPI.apiKey = ""
        /\ Done(r) /\ req[r].endpoint = "detect-red-flags"
        /\ req[r].body.text = JStr(TextA)
        /\ caught[r] = KeyErrorMessage
        /\ Response(r).status = 500
        /\ calls[r] = <<>>

\* C12: a request never has more than one response; a finished request has
\* exactly one, and it is either the 200 result built from the model's text
\* (the parsed value, or the task's fallback when the text does not parse), or
\* an error body {error: message} with status 400 or 500.
IsErrorBody(body) ==
    /\ body.kind = "object"
    /\ Keys(body) = <<"error">>
    /\ Get(body, "error").kind = "string"
    /\ Get(body, "error").v # ""

Uploads(r) == req[r].endpoint \in {"analyze-document", "process-bail-document"} /\ req[r].file # NoFile

C13_StageOrdering ==
    \A r \in Reqs :
        /\ extractCalls[r] = (IF Uploads(r) THEN 1 ELSE 0)
        /\ pc[r] = "extracting" => Uploads(r) /\ calls[r] = <<>> /\ res[r] = <<>>
        /\ (calls[r] # <<>> /\ Uploads(r)) =>
              /\ extractTextFromFile(req[r].file).ok
              /\ calls[r][1].content.text = extractTextFromFile(req[r].file).text
              /\ documentText[r] = JStr(extractTextFromFile(req[r].file).text)
        /\ (Uploads(r) /\ pc[r] \in {"awaiting", "done"} /\ ~extractTextFromFile(req[r].file).ok) =>
              /\ calls[r] = <<>>
              /\ Done(r)
              /\ Response(r) = [status |-> 500, body |-> ErrorBody(FailureMessage(req[r].endpoint))]
        /\ modelResponse[r] # NoAnswer => Len(calls[r]) = 1 /\ Done(r)
        /\ pc[r] = "awaiting" => Len(calls[r]) = 1 /\ res[r] = <<>>
        /\ (Done(r) /\ Response(r).status = 200) => Answered(r)

\* a failed extraction answered without a call, beside an upload whose
\* extracted text went to the model and came back validated
C13_Witness ==
    /\ Done(1) /\ Uploads(1) /\ caught[1] = ExtractErrorMessage /\ calls[1] = <<>>
    /\ Done(2) /\ Uploads(2) /\ req[2].endpoint = "analyze-document"
    /\ req[2].body.text = JStr(TextB)
    /\ Len(calls[2]) = 1
    /\ calls[2][1].content.text = TextA
    /\ Response(2).status = 200

\* the model's text did not parse on a parsing endpoint, and request r was
\* answered with the endpoint's fallback
FellBack(r) ==
    /\ Done(r) /\ req[r].endpoint \in ParsingEndpoints
    /\ Answered(r) /\ ~JSONParse(modelResponse[r].content).ok

\* the value v holds the string t: it is that string, or one of its items or
\* members holds it
RECURSIVE Carries(_, _)
Carries(v, t) ==
    CASE v.kind = "string" -> v.v = t
      [] v.kind = "array" -> \E i \in 1..Len(v.items) : Carries(v.items[i], t)
      [] v.kind = "object" -> \E i \in 1..Len(v.members) : Carries(v.members[i][2], t)
      [] OTHER -> FALSE

\* C14 (as claimed): on every parsing endpoint the fallback carries the raw
\* model text in one of its fields.
C14_FallbackCarriesRawText ==
    \A r \in Reqs : FellBack(r) => Carries(Response(r).body, modelResponse[r].content)

\* C14 (amended): the fallback carries the raw model text on analyze-document
\* (simplifiedSummary and multilingualSummary.english, beside empty lists,
\* overallRisk "medium" and one manual-review recommendation) and on
\* process-bail-document (analysis, beside the extracted text); on
\* detect-red-flags it is one fixed analysis_error entry, on tag-clauses and
\* link-statutes empty lists with zero counts, on multilingual-simplify the
\* request's own text as the English summary with manual-review entries, and
\* on these four the model's text is not in the result.
C14_FallbackContent ==
    \A r \in Reqs :
        FellBack(r) =>
            LET body == Response(r).body
                raw == modelResponse[r].content
                ep == req[r].endpoint
                One(o, k) == Get(o, k).kind = "array" /\ Len(Get(o, k).items) = 1
                None(o, k) == Get(o, k) = JArr(<<>>)
            IN /\ Response(r).status = 200
               /\ ep = "analyze-document" =>
                     /\ Get(body, "simplifiedSummary") = JStr(raw)
                     /\ Get(Get(body, "multilingualSummary"), "english") = JStr(raw)
                     /\ None(body, "redFlags") /\ None(body, "clauseTags") /\ None(body, "statuteLinks")
                     /\ Get(Get(body, "riskAssessment"), "overallRisk") = JStr("medium")
                     /\ None(Get(body, "riskAssessment"), "concerns")
                     /\ Get(body, "recommendations") = JArr(<<JStr("Please review the document manually")>>)
               /\ ep = "process-bail-document" =>
                     /\ Get(body, "analysis") = JStr(raw)
                     /\ Get(body, "extractedText") = documentText[r]
                     /\ Get(body, "documentType") = JStr("Bail Document")
               /\ ep = "detect-red-flags" =>
                     /\ One(body, "redFlags")
                     /\ Get(Get(body, "redFlags").items[1], "type") = JStr("analysis_error")
                     /\ Get(Get(body, "redFlags").items[1], "recommendation")
                            = JStr("Please review the document manually")
               /\ ep = "tag-clauses" =>
                     /\ None(body, "clauseTags")
                     /\ Get(Get(body, "summary"), "totalClauses") = JNum("0")
                     /\ None(Get(body, "summary"), "categories")
               /\ ep = "link-statutes" =>
                     /\ None(body, "statuteLinks")
                     /\ Get(Get(body, "summary"), "totalLinks") = JNum("0")
                     /\ None(Get(body, "summary"), "statutes")
               /\ ep = "multilingual-simplify" =>
                     /\ Get(Get(body, "summaries"), "english") = req[r].body.text
                     /\ Get(Get(body, "keyPoints"), "english") = JArr(<<JStr("Please review manually")>>)
                     /\ Get(Get(body, "warnings"), "english") = JArr(<<JStr("Manual review recommended")>>)
               /\ Carries(body, raw) <=> ep \in {"analyze-document", "process-bail-document"}

\* a fallback with the model's text beside one without it
C14_Witness ==
    /\ FellBack(1) /\ req[1].endpoint = "tag-clauses"
    /\ modelResponse[1].content = RawTruncated
    /\ ~Carries(Response(1).body, RawTruncated)
    /\ FellBack(2) /\ req[2].endpoint = "analyze-document"
    /\ Get(Response(2).body, "simplifiedSummary") = JStr(RawNotJson)

\* the ten fields of a bail record, as the client declares them
BailRecordShape ==
    << <<"documentType", "string">>, <<"defendantInfo", "object">>, <<"bailAmount", "string">>,
       <<"conditions", "array">>, <<"suretyInfo", "object">>, <<"courtInfo", "object">>,
       <<"importantDates", "object">>, <<"specialConditions", "array">>,
       <<"riskAssessment", "string">>, <<"complianceRequirements", "array">> >>

\* the top-level fields the interface lists for an endpoint's result
InterfaceShape(ep) ==
    IF ep = "process-bail-document" THEN BailRecordShape ELSE CanonicalShape(ep)

\* C15 (as claimed): every fallback result has exactly the top-level fields
\* the interface lists for its endpoint (for process-bail-document, the ten
\* bail-record fields), each of the kind the schema gives it.
C15_FallbackConforms ==
    \A r \in Reqs :
        FellBack(r) => HasShape(Response(r).body, InterfaceShape(req[r].endpoint))

\* request r's handler caught an extraction or gateway failure
Failed(r) == Done(r) /\ req[r].endpoint \in Endpoints /\ caught[r] # ""

\* C16: an extraction or gateway failure is answered with status 500 and the
\* endpoint's fixed message: two failures on one endpoint get the same
\* response whatever their cause, and the body holds neither the error that
\* was caught, nor the upstream error, nor the document text or a field of the
\* request, nor the missing-key message.
C16_GenericFailure ==
    \A r \in Reqs :
        Failed(r) =>
            LET body == Response(r).body IN
            /\ Response(r).status = 500
            /\ body = ErrorBody(FailureMessage(req[r].endpoint))
            /\ \A s \in Reqs :
                  (Failed(s) /\ req[s].endpoint = req[r].endpoint) => Response(s) = Response(r)
            /\ ~Carries(body, caught[r])
            /\ ~Carries(body, modelResponse[r].error)
            /\ ~Carries(body, ToStr(documentText[r]))
            /\ \A k \in DOMAIN req[r].body : ~Carries(body, ToStr(req[r].body[k]))
            /\ \A e \in {ExtractErrorMessage, KeyErrorMessage, GatewayErrorMessage} \cup UpstreamErrors :
                  ~Carries(body, e)

\* an extraction failure and an upstream failure on one endpoint
C16_Witness ==
    /\ Failed(1) /\ req[1].endpoint = "analyze-document" /\ caught[1] = ExtractErrorMessage
    /\ Failed(2) /\ req[2].endpoint = "analyze-document" /\ caught[2] = GatewayErrorMessage
    /\ modelResponse[2].error = "socket hang up"
    /\ Response(1) = Response(2)
    /\ Response(1).status = 500

\* the target languages of a multilingual-simplify request: the supplied
\* list, or the five default languages when none is supplied
TargetList(q) ==
    LET l == IF q.body.languages = JUndef
             THEN <<JStr("hindi"), JStr("tamil"), JStr("telugu"), JStr("bengali"), JStr("marathi")>>
             ELSE q.body.languages.items
    IN [i \in 1..Len(l) |-> l[i].v]

\* C17 (as claimed): in the prompt of every multilingual-simplify model call,
\* the languages named in the instructions and the language keys of the JSON
\* skeleton are both exactly the request's target languages.
C17_LanguagesInBothPlaces ==
    \A r \in Reqs :
        (req[r].endpoint = "multilingual-simplify" /\ calls[r] # <<>>) =>
            /\ calls[r][1].content.languages = TargetList(req[r])
            /\ calls[r][1].content.schemaKeys = TargetList(req[r])

\* C18: the extractor is chosen by the declared MIME type alone:
\* application/pdf is read by the PDF extractor, the two Word types by the
\* raw-text extractor, text/html by the HTML text extractor, and every other
\* type is the bytes decoded as UTF-8 unchanged, so text/plain "Hello world"
\* extracts to exactly "Hello world"; a file of the same type and bytes under
\* another name extracts the same; a decoder failure yields the extraction
\* error and no text.
C18_MimeDispatch ==
    extracted # NotExtracted =>
        LET mime == upload.mimetype
            buffer == upload.buffer
            Thrown == [ok |-> FALSE, error |-> ExtractErrorMessage]
            Returned(out) == IF out.ok THEN [ok |-> TRUE, text |-> out.text] ELSE Thrown
        IN /\ mime = MimePdf => extracted = Returned(pdf(buffer))
           /\ mime \in {MimeDocx, MimeDoc} => extracted = Returned(extractRawText(buffer))
           /\ mime = MimeHtml => extracted = [ok |-> TRUE, text |-> CheerioText(Utf8(buffer))]
           /\ mime \notin {MimePdf, MimeDocx, MimeDoc, MimeHtml} =>
                 extracted = [ok |-> TRUE, text |-> Utf8(buffer)]
           /\ (mime = MimePlain /\ buffer = [format |-> "text", text |-> "Hello world"]) =>
                 extracted = [ok |-> TRUE, text |-> "Hello world"]
           /\ \A f \in UploadFiles :
                 (f.mimetype = mime /\ f.buffer = buffer) => extractTextFromFile(f) = extracted
           /\ ~extracted.ok => extracted = Thrown /\ DOMAIN extracted = {"ok", "error"}

\* an HTML document declared text/plain: extracted as its characters, markup
\* included, where the HTML extractor would have returned "Hello world"
C18_Witness ==
    /\ upload.mimetype = MimePlain
    /\ upload.buffer = [format |-> "html", text |-> HtmlA]
    /\ extracted = [ok |-> TRUE, text |-> HtmlA]
    /\ CheerioText(HtmlA) = "Hello world"

\* C19 (as claimed): the maxTokens and the temperature of every model
\* request are values the calling endpoint passed to the gateway.
C19_CallerSuppliesParameters ==
    \A r \in Reqs : \A i \in 1..Len(calls[r]) :
        /\ calls[r][i].options.maxTokens # 0
        /\ calls[r][i].options.temperature # 0
        /\ calls[r][i].max_tokens = calls[r][i].options.maxTokens
        /\ calls[r][i].temperature = calls[r][i].options.temperature

\* the maxTokens an endpoint passes to the gateway; 0 when it passes none
SuppliedMaxTokens(ep) ==
    CASE ep = "analyze-document" -> 4000
      [] ep = "multilingual-simplify" -> 3000
      [] ep \in {"process-bail-document", "legal-advice"} -> 2000
      [] ep = "voice-assistant" -> 1000
      [] OTHER -> 0

\* C19 (amended): a model request's max_tokens is the maxTokens its endpoint
\* passes (analyze-document 4000, multilingual-simplify 3000,
\* process-bail-document and legal-advice 2000, voice-assistant 1000) and,
\* for the endpoints that pass none (simplify, detect-red-flags, tag-clauses,
\* link-statutes, translate), the gateway's own default 2000; no endpoint
\* passes a temperature, and every request carries the gateway's default 0.7.
C19_GenerationParameters ==
    \A r \in Reqs : \A i \in 1..Len(calls[r]) :
        LET call == calls[r][i]
            supplied == SuppliedMaxTokens(req[r].endpoint)
        IN /\ call.options.maxTokens = supplied
           /\ call.max_tokens = (IF supplied # 0 THEN supplied ELSE 2000)
           /\ call.options.temperature = 0
           /\ call.temperature = 7

\* a call with the caller's maxTokens beside one with the gateway's default
C19_Witness ==
    /\ Len(calls[1]) = 1 /\ req[1].endpoint = "simplify"
    /\ calls[1][1].options = NoOptions
    /\ calls[1][1].max_tokens = 2000 /\ calls[1][1].temperature = 7
    /\ Len(calls[2]) = 1 /\ req[2].endpoint = "analyze-document"
    /\ calls[2][1].max_tokens = 4000 /\ calls[2][1].temperature = 7

\* C20 (as claimed): once the caller has aborted a request whose model call
\* was pending, the call is abandoned and nothing further happens for the
\* request: no result of the call is taken up and no response is written.
C20_AbortAbandonsCall ==
    \A r \in Reqs :
        aborted[r] =>
            /\ modelResponse[r] = NoAnswer
            /\ res[r] = <<>>
            /\ caught[r] = ""

\* C21: when the model's text R does not parse on analyze-document, the 200
\* body is exactly: redFlags, clauseTags and statuteLinks empty,
\* riskAssessment {overallRisk "medium", score 50, concerns empty},
\* simplifiedSummary R, multilingualSummary {english R, hindi the fixed
\* notice}, recommendations one manual-review entry; two requests whose model
\* text is the same get the same body whatever their documents.
AnalyzeFellBack(r) == FellBack(r) /\ req[r].endpoint = "analyze-document"

C21_AnalyzeFallbackValue ==
    \A r \in Reqs :
        AnalyzeFellBack(r) =>
            LET R == JStr(modelResponse[r].content) IN
            /\ Response(r).status = 200
            /\ Response(r).body =
                 [kind |-> "object",
                  members |->
                    << <<"redFlags", [kind |-> "array", items |-> <<>>]>>,
                       <<"clauseTags", [kind |-> "array", items |-> <<>>]>>,
                       <<"statuteLinks", [kind |-> "array", items |-> <<>>]>>,
                       <<"riskAssessment",
                         [kind |-> "object",
                          members |-> << <<"overallRisk", JStr("medium")>>,
                                         <<"score", JNum("50")>>,
                                         <<"concerns", [kind |-> "array", items |-> <<>>]>> >>]>>,
                       <<"simplifiedSummary", R>>,
                       <<"multilingualSummary",
                         [kind |-> "object",
                          members |-> << <<"english", R>>,
                                         <<"hindi", JStr("Analysis not available in Hindi")>> >>]>>,
                       <<"recommendations",
                         [kind |-> "array",
                          items |-> <<JStr("Please review the document manually")>>]>> >>]
            /\ \A s \in Reqs :
                  (AnalyzeFellBack(s) /\ modelResponse[s].content = modelResponse[r].content)
                      => Response(s).body = Response(r).body

\* two different documents, the same unparsable model text, the same body
C21_Witness ==
    /\ AnalyzeFellBack(1) /\ AnalyzeFellBack(2)
    /\ documentText[1] # documentText[2]
    /\ modelResponse[1].content = RawNotJson /\ modelResponse[2].content = RawNotJson
    /\ Response(1).body = Response(2).body
    /\ Get(Response(1).body, "simplifiedSummary") = JStr(RawNotJson)

\* C22: the max_tokens sent to the model is 4000 for analyze-document, 3000
\* for multilingual-simplify, 2000 for process-bail-document and
\* legal-advice, 1000 for voice-assistant and 2000 for simplify,
\* detect-red-flags, tag-clauses, link-statutes and translate, so it lies in
\* 1000..4000; the temperature sent is 0.7 (7 tenths).
TokenBudget(ep) ==
    CASE ep = "analyze-document" -> 4000
      [] ep = "multilingual-simplify" -> 3000
      [] ep = "voice-assistant" -> 1000
      [] OTHER -> 2000

C22_TokenBudget ==
    \A r \in Reqs : \A i \in 1..Len(calls[r]) :
        /\ req[r].endpoint \in Endpoints
        /\ calls[r][i].max_tokens = TokenBudget(req[r].endpoint)
        /\ calls[r][i].max_tokens \in 1000..4000
        /\ calls[r][i].temperature = 7

\* the smallest budget beside the largest
C22_Witness ==
    /\ Len(calls[1]) = 1 /\ req[1].endpoint = "voice-assistant" /\ calls[1][1].max_tokens = 1000
    /\ Len(calls[2]) = 1 /\ req[2].endpoint = "analyze-document" /\ calls[2][1].max_tokens = 4000
    /\ calls[1][1].temperature = 7 /\ calls[2][1].temperature = 7

\* request r is an analyze-document request past its extraction stage
Analysing(r) == req[r].endpoint = "analyze-document" /\ pc[r] \in {"awaiting", "done"}

\* C23 (as claimed): on analyze-document an uploaded file's extracted text is
\* the text analysed, and a request is answered 400 if and only if neither a
\* file nor a non-empty text was supplied.
C23_RejectsOnlyWithoutInput ==
    \A r \in Reqs :
        (Analysing(r) /\ Done(r)) =>
            (Response(r).status = 400 <=> (req[r].file = NoFile /\ Absent(req[r].body.text)))

\* C23 (amended): on analyze-document an uploaded file's extracted text is the
\* text validated and analysed, whatever the text field holds; a request whose
\* extraction did not fail is answered 400 if and only if that document text
\* is empty: with a file, when the file extracts to the empty text (even
\* beside a non-empty text field), without a file, when text is missing or
\* empty.  A failed extraction is answered 500.
C23_FileTextTakesPrecedence ==
    \A r \in Reqs :
        Analysing(r) =>
            LET x == extractTextFromFile(req[r].file)
                uploaded == req[r].file # NoFile
                text == IF uploaded THEN JStr(x.text) ELSE req[r].body.text
            IN IF uploaded /\ ~x.ok
               THEN Done(r) /\ Response(r).status = 500 /\ calls[r] = <<>>
               ELSE /\ documentText[r] = text
                    /\ calls[r] # <<>> => calls[r][1].content.text = ToStr(text)
                    /\ Done(r) => (Response(r).status = 400 <=> Falsy(text))
                    /\ Falsy(text) => Done(r) /\ Response(r).status = 400 /\ calls[r] = <<>>

\* an empty file uploaded beside a non-empty text: answered 400
C23_Witness ==
    /\ Analysing(1) /\ Done(1)
    /\ req[1].file # NoFile
    /\ extractTextFromFile(req[1].file) = [ok |-> TRUE, text |-> ""]
    /\ req[1].body.text = JStr(TextA)
    /\ Response(1) = [status |-> 400, body |-> ErrorBody("Document text or file is required")]

\* the request lacks an input its endpoint requires
Lacking(q) ==
    \/ MissingInput(q)
    \/ q.endpoint = "analyze-document" /\ q.file = NoFile /\ Absent(q.body.text)

\* C24 (as claimed): with no API key, a finished request that lacks a
\* required input was answered 400, and one with all its required inputs 500.
C24_ValidationBeforeCredentials ==
    grokAPI.apiKey = "" =>
        \A r \in Reqs :
            (Done(r) /\ req[r].endpoint \in Endpoints) =>
                Response(r).status = (IF Lacking(req[r]) THEN 400 ELSE 500)

\* the uploaded file of an analyze-document request extracts to the empty text
EmptyUpload(q) ==
    /\ q.endpoint = "analyze-document" /\ q.file # NoFile
    /\ extractTextFromFile(q.file) = [ok |-> TRUE, text |-> ""]

\* C24 (amended): with no API key, a request is answered 400 when its
\* handler's input check fails - a required input is missing, or on
\* analyze-document the uploaded file extracts to the empty text - and 500
\* in every other case; no request reaches the model.
C24_InputCheckBeforeCredentials ==
    grokAPI.apiKey = "" =>
        \A r \in Reqs :
            /\ calls[r] = <<>>
            /\ (Done(r) /\ req[r].endpoint \in Endpoints) =>
                  Response(r).status =
                      (IF Lacking(req[r]) \/ EmptyUpload(req[r]) THEN 400 ELSE 500)
            /\ (req[r].endpoint \in Endpoints /\ Lacking(req[r])) =>
                  Done(r) /\ Response(r).status = 400 /\ caught[r] = ""

\* with no key: a request lacking an input answered 400 beside a complete one
\* answered 500
C24_Witness ==
    /\ grokAPI.apiKey = ""
    /\ Done(1) /\ req[1].endpoint = "tag-clauses" /\ req[1].body.text = JStr("")
    /\ Response(1).status = 400
    /\ Done(2) /\ req[2].endpoint = "tag-clauses" /\ req[2].body.text = JStr(TextB)
    /\ Response(2).status = 500 /\ caught[2] = KeyErrorMessage

\* a login, register or updateProfile call has started and not completed
Pending(o) == authOps[o].status = "pending"

\* C25 (as claimed): once the provider has loaded, the stored entry and the
\* user agree: the entry is absent exactly when user is null, otherwise it is
\* the serialization of the user; an entry that could not be parsed at load
\* time has been removed and left user null.
C25_SessionAgreement ==
    mounted =>
        /\ localStorage = NoItem <=> user = JNull
        /\ user # JNull => localStorage = Item(JSONStringify(user))
        /\ (authLog.boot.present /\ ~ParseSavedUser(authLog.boot.value).ok
              /\ ~authLog.loggedOut /\ \A o \in Ops : authOps[o].status = "idle")
              => localStorage = NoItem /\ user = JNull

\* C26 (as claimed): after a logout the user stays null and the entry absent
\* until a call started after that logout completes; a call that was pending
\* when logout ran never sets a user.
C26_LogoutIsFinal ==
    (authLog.loggedOut /\ ~authLog.fresh) => user = JNull /\ localStorage = NoItem

\* C27 (as claimed): isLoading is true whenever a login, register or
\* updateProfile call is pending, and false once the provider has loaded and
\* none is.
C27_LoadingTracksPending ==
    /\ (\E o \in Ops : Pending(o)) => isLoading
    /\ (mounted /\ \A o \in Ops : ~Pending(o)) => ~isLoading

\* the call made was a translateText call
Translated == clientCall.fn = "translateText"

\* the backend answered 2xx with a JSON object whose translatedText is a
\* non-empty value
CarriesTranslation(outcome) ==
    /\ outcome.kind = "response"
    /\ outcome.status \in 200..299
    /\ JSONParse(outcome.body).ok
    /\ JSONParse(outcome.body).val.kind = "object"
    /\ HasKey(JSONParse(outcome.body).val, "translatedText")
    /\ Get(JSONParse(outcome.body).val, "translatedText") \notin {JStr(""), JNull, JUndef}

\* C28: translateText returns normally for every outcome of the backend call
\* (network error, non-2xx status, 2xx without a usable translatedText), and
\* returns the original text in every case except a 2xx response carrying a
\* non-empty translatedText, which it returns.
C28_TranslateNeverFails ==
    Translated =>
        /\ ~clientCall.returned.threw
        /\ IF CarriesTranslation(clientCall.outcome)
           THEN clientCall.returned.value
                    = Get(JSONParse(clientCall.outcome.body).val, "translatedText")
           ELSE clientCall.returned.value = JStr(clientCall.text)

\* a backend failure answered with the original text
C28_Witness ==
    /\ Translated
    /\ clientCall.outcome = HttpResponse(500, BodyError)
    /\ clientCall.text = TextB
    /\ clientCall.returned = [threw |-> FALSE, value |-> JStr(TextB)]

\* C29 (as claimed): detectRedFlags never throws and always returns a list:
\* without a direct client the backend's redFlags, or the empty list on any
\* backend failure; with one, the parsed value when the model's text parses,
\* one analysis_error/low entry when it does not, the empty list when the
\* model call fails.
C29_DetectReturnsList ==
    clientCall.fn = "detectRedFlags" =>
        /\ ~clientCall.returned.threw
        /\ clientCall.returned.value.kind = "array"
        /\ clientCall.outcome.kind = "error" => clientCall.returned.value = JArr(<<>>)
        /\ (geminiAI # JNull /\ clientCall.outcome.kind = "text"
               /\ ~JSONParse(clientCall.outcome.text).ok)
              => /\ Len(clientCall.returned.value.items) = 1
                 /\ Get(clientCall.returned.value.items[1], "type") = JStr("analysis_error")
                 /\ Get(clientCall.returned.value.items[1], "severity") = JStr("low")

====
